---- MODULE Spec2Model ----
(***************************************************************************)
(* Model of the extraction engine of cargo-binstall:                       *)
(*   crates/binstalk-types/src/cargo_toml_binstall/package_formats.rs      *)
(*   crates/binstalk-downloader/src/download/async_extracter.rs            *)
(*                                                                         *)
(* One extraction call (or one call of guess_pkg_format, or of decompose   *)
(* and PkgFmt::from on a pair of formats) is one behaviour.                *)
(* A string is held as the sequence of its dot-free tokens ("a.tar.gz" is  *)
(* <<"a", "tar", "gz">>, "" is <<"">>): splitting on '.' is a bijection    *)
(* between strings and non-empty token sequences.  A path is the sequence  *)
(* of its components, ".." being ParentDir and "." being CurDir.           *)
(***************************************************************************)
EXTENDS Integers, Sequences, FiniteSets, TLC

VARIABLES
    kind,         \* the operation of this call: "Guess", "Formats", "Bin", "Zip", "Tar", "Bz2"
    url,          \* guess_pkg_format: the pkg_url argument (token sequence)
    guessed,      \* guess_pkg_format: Pending, or the Option<PkgFmt> returned
    tfmt,         \* PkgFmt::from: the TarBasedFmt arguments (a pair), None without
    fmt,          \* decompose: the PkgFmt arguments (a pair), Pending before from
    decomposed,   \* decompose: Pending, or the PkgFmtDecomposed values returned
    source,       \* the byte stream: a sequence of items, chunks then maybe an error
    dst,          \* the path argument
    cap,          \* mpsc channel: its capacity
    ppc,          \* async side: position of the caller's future
    pulled,       \* async side: number of stream items taken from the stream
    held,         \* async side: the chunk being sent
    chan,         \* mpsc channel: chunks in flight
    txOpen,       \* mpsc channel: the Sender is alive
    rxOpen,       \* mpsc channel: the Receiver is alive
    wpc,          \* worker thread: position in the blocking closure
    wres,         \* worker thread: the closure's io::Result, NoResult before
    recvd,        \* worker thread: chunks received so far (history)
    cur,          \* worker thread: the chunk / tar entry in hand
    wbuf,         \* io::BufWriter: bytes buffered, not yet in the file
    fileData,     \* the file written by write_stream_to_file / extract_bz2
    directories,  \* tar: the buffered directory entries
    ledger,       \* ExtractedFiles being built
    unpackLog,    \* tar: the unpack_in calls made so far (history)
    parentExists, \* filesystem: dst.parent() exists
    dstExists,    \* filesystem: dst exists
    canon,        \* tar: dst.canonicalize() succeeded
    disk,         \* filesystem: locations of the regular files written by unpack_in
    dirs,         \* filesystem: directories under dst, path -> mode
    zipCalls,     \* zip: the temporary-file contents do_extract_zip was called with
    run,          \* 1, or 2 for a second extraction into the same destination
    ledger1,      \* the ledger returned by run 1
    result        \* what the call returned to the async caller, NoResult before

guessVars == <<url, guessed, tfmt, fmt, decomposed>>
inputVars == <<kind, source, dst, cap>>
prodVars  == <<ppc, pulled, held>>
workVars  == <<wpc, wres, recvd, cur>>
fileVars  == <<wbuf, fileData>>
tarVars   == <<directories, ledger, unpackLog>>
fsVars    == <<parentExists, dstExists, canon, disk, dirs>>
runVars   == <<run, ledger1>>
vars == <<kind, url, guessed, tfmt, fmt, decomposed, source, dst, cap, ppc, pulled, held, chan, txOpen, rxOpen,
          wpc, wres, recvd, cur, wbuf, fileData, directories, ledger, unpackLog,
          parentExists, dstExists, canon, disk, dirs, zipCalls, run, ledger1, result>>

(***************************************************************************)
(* Option<T>                                                               *)
(***************************************************************************)
None == <<"None">>
Some(x) == <<"Some", x>>
Pending == <<"Pending">>

(***************************************************************************)
(* package_formats.rs                                                      *)
(***************************************************************************)
PkgFmt == {"Tar", "Tbz2", "Tgz", "Txz", "Tzstd", "Zip", "Bin", "Bz2"}

\* Bound: the number of dot-separated tokens of a pkg_url.
MaxTokens == 3

\* The dot-free tokens pkg_urls are built from: every suffix the function
\* names, a stem, the empty token and an unknown suffix.
Tokens == {"tar", "tbz2", "bz2", "tgz", "gz", "txz", "xz", "tzstd", "tzst", "zst",
           "exe", "bin", "zip", "pkg", "", "unknownext"}

Urls == UNION {[1..n -> Tokens] : n \in 1..MaxTokens}

\* str::rsplitn(3, '.'): at most three parts, right to left; the third part
\* is everything left of the second dot from the right (kept as tokens).
rsplitn3(s) ==
    LET n == Len(s) IN
    IF n = 1 THEN <<s[1]>>
    ELSE IF n = 2 THEN <<s[2], s[1]>>
    ELSE <<s[n], s[n - 1], SubSeq(s, 1, n - 2)>>

\* Iterator::next() on the rsplitn iterator, k-th call.
it_next(it, k) == IF k <= Len(it) THEN Some(it[k]) ELSE None

\* A slip: `bz2` taken as plain Bz2 whatever precedes it.
initial_guess_plain_bz2(last, second_last) ==
    CASE last = "tar" -> Some("Tar")
      [] last = "tbz2" -> Some("Tbz2")
      [] last = "bz2" -> Some("Bz2")
      [] last = "tgz" -> Some("Tgz")
      [] last = "gz" /\ second_last = Some("tar") -> Some("Tgz")
      [] last = "txz" -> Some("Txz")
      [] last = "xz" /\ second_last = Some("tar") -> Some("Txz")
      [] last \in {"tzstd", "tzst"} -> Some("Tzstd")
      [] last = "zst" /\ second_last = Some("tar") -> Some("Tzstd")
      [] last \in {"exe", "bin"} -> Some("Bin")
      [] last = "zip" -> Some("Zip")
      [] OTHER -> None

\* A slip: the `xz` arm copied from the `gz` arm with its format left as Tgz.
initial_guess_xz_as_tgz(last, second_last) ==
    CASE last = "tar" -> Some("Tar")
      [] last = "tbz2" -> Some("Tbz2")
      [] last = "bz2" -> IF second_last = Some("tar") THEN Some("Tbz2") ELSE Some("Bz2")
      [] last = "tgz" -> Some("Tgz")
      [] last = "gz" /\ second_last = Some("tar") -> Some("Tgz")
      [] last = "txz" -> Some("Txz")
      [] last = "xz" /\ second_last = Some("tar") -> Some("Tgz")
      [] last \in {"tzstd", "tzst"} -> Some("Tzstd")
      [] last = "zst" /\ second_last = Some("tar") -> Some("Tzstd")
      [] last \in {"exe", "bin"} -> Some("Bin")
      [] last = "zip" -> Some("Zip")
      [] OTHER -> None

\* The first match of guess_pkg_format (`let guess = match last {...}`).
initial_guess(last, second_last) ==
    CASE last = "tar" -> Some("Tar")
      [] last = "tbz2" -> Some("Tbz2")
      [] last = "bz2" -> IF second_last = Some("tar") THEN Some("Tbz2") ELSE Some("Bz2")
      [] last = "tgz" -> Some("Tgz")
      [] last = "gz" /\ second_last = Some("tar") -> Some("Tgz")
      [] last = "txz" -> Some("Txz")
      [] last = "xz" /\ second_last = Some("tar") -> Some("Txz")
      [] last \in {"tzstd", "tzst"} -> Some("Tzstd")
      [] last = "zst" /\ second_last = Some("tar") -> Some("Tzstd")
      [] last \in {"exe", "bin"} -> Some("Bin")
      [] last = "zip" -> Some("Zip")
      [] OTHER -> None

\* The second match of guess_pkg_format (`match guess {...}`); third is the
\* result of the third it.next().
validate_guess(guess, last, second_last, third) ==
    CASE /\ guess \in {Some("Tbz2"), Some("Tgz"), Some("Txz"), Some("Tzstd")}
         /\ last # "tbz2" /\ last # "tgz" /\ last # "txz"
         /\ last # "tzstd" /\ last # "tzst" ->
            IF second_last = Some("tar") /\ third # None THEN guess ELSE None
      [] guess \in {Some("Tar"), Some("Bz2"), Some("Bin"), Some("Zip")} ->
            IF second_last = None \/ (last = "bz2" /\ second_last # Some("tar"))
            THEN guess ELSE None
      [] OTHER ->
            IF third # None THEN guess ELSE None

guess_pkg_format(pkg_url) ==
    LET it == rsplitn3(pkg_url)
        last == it[1]
        second_last == it_next(it, 2)
    IN  validate_guess(initial_guess(last, second_last), last, second_last,
                       it_next(it, 3))

\* PkgFmt::extensions: each extension as the tokens that follow its dots
\* (".tar.gz" is <<"tar", "gz">>, "" is <<>>).
extensions(self, is_windows) ==
    CASE self = "Tar" -> << <<"tar">> >>
      [] self = "Tbz2" -> << <<"tbz2">>, <<"tar", "bz2">> >>
      [] self = "Tgz" -> << <<"tgz">>, <<"tar", "gz">> >>
      [] self = "Txz" -> << <<"txz">>, <<"tar", "xz">> >>
      [] self = "Tzstd" -> << <<"tzstd">>, <<"tzst">>, <<"tar", "zst">> >>
      [] self = "Bin" -> IF is_windows
                         THEN << <<"bin">>, <<>>, <<"exe">> >>
                         ELSE << <<"bin">>, <<>> >>
      [] self = "Zip" -> << <<"zip">> >>
      [] self = "Bz2" -> << <<"bz2">> >>

(***************************************************************************)
(* PkgFmtDecomposed, TarBasedFmt, decompose and From<TarBasedFmt>          *)
(***************************************************************************)
TarBasedFmt == {"TarBasedFmt::Tar", "TarBasedFmt::Tbz2", "TarBasedFmt::Tgz",
                "TarBasedFmt::Txz", "TarBasedFmt::Tzstd"}

PkgFmtDecomposed == {<<"Tar", t>> : t \in TarBasedFmt} \cup {<<"Bin">>, <<"Zip">>, <<"Bz2">>}

\* A slip: two formats decomposed into the same shape.
decompose_tbz2_as_tgz(self) ==
    CASE self = "Tar" -> <<"Tar", "TarBasedFmt::Tar">>
      [] self = "Tbz2" -> <<"Tar", "TarBasedFmt::Tgz">>
      [] self = "Tgz" -> <<"Tar", "TarBasedFmt::Tgz">>
      [] self = "Txz" -> <<"Tar", "TarBasedFmt::Txz">>
      [] self = "Tzstd" -> <<"Tar", "TarBasedFmt::Tzstd">>
      [] self = "Bin" -> <<"Bin">>
      [] self = "Zip" -> <<"Zip">>
      [] self = "Bz2" -> <<"Bz2">>

\* PkgFmt::decompose: `match self`
decompose(self) ==
    CASE self = "Tar" -> <<"Tar", "TarBasedFmt::Tar">>
      [] self = "Tbz2" -> <<"Tar", "TarBasedFmt::Tbz2">>
      [] self = "Tgz" -> <<"Tar", "TarBasedFmt::Tgz">>
      [] self = "Txz" -> <<"Tar", "TarBasedFmt::Txz">>
      [] self = "Tzstd" -> <<"Tar", "TarBasedFmt::Tzstd">>
      [] self = "Bin" -> <<"Bin">>
      [] self = "Zip" -> <<"Zip">>
      [] self = "Bz2" -> <<"Bz2">>

\* impl From<TarBasedFmt> for PkgFmt: `match fmt`
from(t) ==
    CASE t = "TarBasedFmt::Tar" -> "Tar"
      [] t = "TarBasedFmt::Tbz2" -> "Tbz2"
      [] t = "TarBasedFmt::Tgz" -> "Tgz"
      [] t = "TarBasedFmt::Txz" -> "Txz"
      [] t = "TarBasedFmt::Tzstd" -> "Tzstd"

(***************************************************************************)
(* Values shared by the extractors                                         *)
(***************************************************************************)
NoResult == <<"NoResult">>
Ok(v) == <<"Ok", v>>
Err(e) == <<"Err", e>>
\* The file does not exist (file contents are sequences of bytes >= 0).
Absent == <<-1>>

\* Result<Bytes, DownloadError>, the items of the stream.
ChunkItem(data) == <<"Ok", data>>
ErrItem == <<"Err">>
DownloadError == "DownloadError"

\* Bound: the number of chunks (for tar: of entries) of a stream.
MaxChunks == 2
MaxEntries == 3
\* Bound: the capacity of the bounded channel.
ChanCap == 2

SeqsUpTo(S, n) == UNION {[1..k -> S] : k \in 0..n}

\* Streams: chunks, then either the end of the stream or a download error.
Sources(payloads, n) ==
    {[i \in 1..Len(c) |-> ChunkItem(c[i])] \o tail :
        c \in SeqsUpTo(payloads, n), tail \in {<<>>, <<ErrItem>>}}

\* The chunks of a stream, in order, without its error.
SourceChunks(src) ==
    LET ok == SelectSeq(src, LAMBDA it : it[1] = "Ok")
    IN  [i \in 1..Len(ok) |-> ok[i][2]]

HasError(src) == \E i \in 1..Len(src) : src[i] = ErrItem

IsPrefix(s, t) == Len(s) <= Len(t) /\ SubSeq(t, 1, Len(s)) = s

RECURSIVE Concat(_)
Concat(ss) == IF ss = <<>> THEN <<>> ELSE Head(ss) \o Concat(Tail(ss))

\* Byte chunks of the Bin, Zip and Bz2 streams.
ByteChunks == {<<1>>, <<2, 3>>}

\* Path::file_name and Path::parent of a path whose last component is normal.
file_name(path) == <<path[Len(path)]>>
parent(path) == IF Len(path) = 0 THEN None ELSE Some(SubSeq(path, 1, Len(path) - 1))

\* ExtractedFiles: the two collections of relative paths.
NewLedger == [files |-> {}, dirs |-> {}]
add_file(l, p) == [l EXCEPT !.files = @ \cup {p}]
add_dir(l, p) == [l EXCEPT !.dirs = @ \cup {p}]

(***************************************************************************)
(* The stream bridge (utils::extract_with_blocking_task): the async side   *)
(***************************************************************************)
asyncSide == kind \in {"Bin", "Zip", "Tar"}

\* stream.next().await yields a chunk.
PullChunk ==
    /\ asyncSide /\ ppc = "next"
    /\ pulled < Len(source) /\ source[pulled + 1] # ErrItem
    /\ pulled' = pulled + 1
    /\ held' = Some(source[pulled + 1][2])
    /\ ppc' = "send"
    /\ UNCHANGED <<inputVars, guessVars, chan, txOpen, rxOpen, workVars, fileVars,
                   tarVars, fsVars, zipCalls, runVars, result>>

\* stream.next().await yields the download error: forwarding stops and the
\* sender is dropped, so that the worker sees the channel closed.
PullError ==
    /\ asyncSide /\ ppc = "next"
    /\ pulled < Len(source) /\ source[pulled + 1] = ErrItem
    /\ pulled' = pulled + 1
    /\ txOpen' = FALSE
    /\ ppc' = "fail"
    /\ UNCHANGED <<inputVars, guessVars, held, chan, rxOpen, workVars, fileVars,
                   tarVars, fsVars, zipCalls, runVars, result>>

\* A slip: the worker's result returned whatever the stream did.
StreamFailureResult_worker == wres

\* What the bridge returns once the stream has failed.
StreamFailureResult == Err(DownloadError)

\* The stream error is the bridge's result.
ReturnStreamError ==
    /\ asyncSide /\ ppc = "fail"
    /\ result' = StreamFailureResult
    /\ ppc' = "done"
    /\ UNCHANGED <<inputVars, guessVars, pulled, held, chan, txOpen, rxOpen, workVars,
                   fileVars, tarVars, fsVars, zipCalls, runVars>>

\* stream.next().await yields None: the sender is dropped.
PullEnd ==
    /\ asyncSide /\ ppc = "next"
    /\ pulled = Len(source)
    /\ txOpen' = FALSE
    /\ ppc' = "join"
    /\ UNCHANGED <<inputVars, guessVars, pulled, held, chan, rxOpen, workVars, fileVars,
                   tarVars, fsVars, zipCalls, runVars, result>>

\* tx.send(bytes).await completes: there is room in the bounded channel.
Send ==
    /\ asyncSide /\ ppc = "send"
    /\ rxOpen /\ Len(chan) < cap
    /\ chan' = Append(chan, held[2])
    /\ held' = None
    /\ ppc' = "next"
    /\ UNCHANGED <<inputVars, guessVars, pulled, txOpen, rxOpen, workVars, fileVars,
                   tarVars, fsVars, zipCalls, runVars, result>>

\* tx.send(bytes).await fails: the receiver is gone (the worker returned).
SendClosed ==
    /\ asyncSide /\ ppc = "send"
    /\ ~rxOpen
    /\ held' = None
    /\ txOpen' = FALSE
    /\ ppc' = "join"
    /\ UNCHANGED <<inputVars, guessVars, pulled, chan, rxOpen, workVars, fileVars,
                   tarVars, fsVars, zipCalls, runVars, result>>

\* The worker's result is awaited and returned.
Join ==
    /\ asyncSide /\ ppc = "join"
    /\ wpc = "done"
    /\ result' = wres
    /\ ppc' = "done"
    /\ UNCHANGED <<inputVars, guessVars, pulled, held, chan, txOpen, rxOpen, workVars,
                   fileVars, tarVars, fsVars, zipCalls, runVars>>

\* The worker's result is discovered while the stream is still being forwarded.
EarlyJoin ==
    /\ asyncSide /\ ppc \in {"next", "send"}
    /\ wpc = "done"
    /\ result' = wres
    /\ held' = None
    /\ txOpen' = FALSE
    /\ ppc' = "done"
    /\ UNCHANGED <<inputVars, guessVars, pulled, chan, rxOpen, workVars, fileVars,
                   tarVars, fsVars, zipCalls, runVars>>

(***************************************************************************)
(* The worker thread: extract_with_blocking_decoder and the closures       *)
(***************************************************************************)
\* The closure returns Err(e): `?` drops the receiver with everything else.
WorkerFail(e) ==
    /\ wpc' = "done"
    /\ wres' = Err(e)
    /\ rxOpen' = FALSE
    /\ chan' = <<>>

\* The first step of the closure f of each extractor.
ClosureEntry == CASE kind = "Bin" -> "bin_create"
                  [] kind = "Zip" -> "zip_tmp"
                  [] kind = "Tar" -> "tar_mkdst"

\* extract_with_blocking_decoder: fs::create_dir_all(parent)?, then f(rx, &path).
MkParent ==
    /\ asyncSide /\ wpc = "mkparent"
    /\ \/ /\ parent(dst) # None
          /\ parentExists' = TRUE
          /\ wpc' = ClosureEntry
          /\ UNCHANGED <<wres, rxOpen, chan>>
       \/ /\ parent(dst) # None
          /\ WorkerFail("EIO")
          /\ UNCHANGED parentExists
       \/ /\ parent(dst) = None
          /\ wpc' = ClosureEntry
          /\ UNCHANGED <<wres, rxOpen, chan, parentExists>>
    /\ UNCHANGED <<inputVars, guessVars, prodVars, txOpen, recvd, cur, fileVars, tarVars,
                   dstExists, canon, disk, dirs, zipCalls, runVars, result>>

\* A slip: the whole path recorded instead of its final component.
bin_ledger_whole_path(path) == add_file(NewLedger, path)

\* extract_bin: the ledger, made before the file is created.
bin_ledger(path) == add_file(NewLedger, file_name(path))

\* extract_bin: extracted_files.add_file(file_name); fs::File::create(path)?
BinCreate ==
    /\ kind = "Bin" /\ wpc = "bin_create"
    /\ ledger' = bin_ledger(dst)
    /\ \/ /\ parentExists
          /\ fileData' = <<>>
          /\ wpc' = "recv"
          /\ UNCHANGED <<wres, rxOpen, chan>>
       \/ /\ WorkerFail(IF parentExists THEN "EIO" ELSE "ENOENT")
          /\ UNCHANGED fileData
    /\ UNCHANGED <<inputVars, guessVars, prodVars, txOpen, recvd, cur, wbuf, directories,
                   unpackLog, fsVars, zipCalls, runVars, result>>

\* extract_zip: create_tmpfile()?
ZipTmp ==
    /\ kind = "Zip" /\ wpc = "zip_tmp"
    /\ \/ /\ fileData' = <<>>
          /\ wpc' = "recv"
          /\ UNCHANGED <<wres, rxOpen, chan>>
       \/ /\ WorkerFail("EIO")
          /\ UNCHANGED fileData
    /\ UNCHANGED <<inputVars, guessVars, prodVars, txOpen, recvd, cur, wbuf, tarVars,
                   fsVars, zipCalls, runVars, result>>

\* rx.blocking_recv() on a non-empty channel: the oldest chunk.
chan_take(c) == [item |-> Head(c), rest |-> Tail(c)]

\* A slip: an empty channel taken for the end of the stream, the sender
\* being still there.
Recv_impatient ==
    /\ kind \in {"Bin", "Zip"} /\ wpc = "recv"
    /\ \/ /\ chan # <<>>
          /\ cur' = Some(chan_take(chan).item)
          /\ chan' = chan_take(chan).rest
          /\ recvd' = Append(recvd, chan_take(chan).item)
          /\ wpc' = "write"
       \/ /\ chan = <<>>
          /\ wpc' = "flush"
          /\ UNCHANGED <<cur, chan, recvd>>
    /\ UNCHANGED <<inputVars, guessVars, prodVars, txOpen, rxOpen, wres, fileVars, tarVars,
                   fsVars, zipCalls, runVars, result>>

\* A slip: the closed channel not taken for the end of the stream, the
\* worker waiting for a chunk that cannot come.
Recv_waits_on_closed ==
    /\ kind \in {"Bin", "Zip"} /\ wpc = "recv"
    /\ chan # <<>>
    /\ cur' = Some(chan_take(chan).item)
    /\ chan' = chan_take(chan).rest
    /\ recvd' = Append(recvd, chan_take(chan).item)
    /\ wpc' = "write"
    /\ UNCHANGED <<inputVars, guessVars, prodVars, txOpen, rxOpen, wres, fileVars, tarVars,
                   fsVars, zipCalls, runVars, result>>

\* write_stream_to_file: `while let Some(bytes) = rx.blocking_recv()`.
Recv ==
    /\ kind \in {"Bin", "Zip"} /\ wpc = "recv"
    /\ \/ /\ chan # <<>>
          /\ cur' = Some(chan_take(chan).item)
          /\ chan' = chan_take(chan).rest
          /\ recvd' = Append(recvd, chan_take(chan).item)
          /\ wpc' = "write"
       \/ /\ chan = <<>> /\ ~txOpen
          /\ wpc' = "flush"
          /\ UNCHANGED <<cur, chan, recvd>>
    /\ UNCHANGED <<inputVars, guessVars, prodVars, txOpen, rxOpen, wres, fileVars, tarVars,
                   fsVars, zipCalls, runVars, result>>

\* write_stream_to_file: f.write_all(&bytes)? on the BufWriter: the bytes are
\* buffered, after the buffer has been written out when it is full.
WriteAll ==
    /\ kind \in {"Bin", "Zip"} /\ wpc = "write"
    /\ \/ /\ wbuf' = wbuf \o cur[2]
          /\ wpc' = "recv"
          /\ UNCHANGED <<fileData, wres, rxOpen, chan>>
       \/ /\ wbuf # <<>>
          /\ fileData' = fileData \o wbuf
          /\ wbuf' = cur[2]
          /\ wpc' = "recv"
          /\ UNCHANGED <<wres, rxOpen, chan>>
       \/ /\ WorkerFail("EIO")
          /\ UNCHANGED <<wbuf, fileData>>
    /\ cur' = None
    /\ UNCHANGED <<inputVars, guessVars, prodVars, txOpen, recvd, tarVars, fsVars,
                   zipCalls, runVars, result>>

\* A slip: the BufWriter dropped without f.flush()? and f.into_inner(), what
\* it still buffers never reaching the file.
Flush_forgotten ==
    /\ kind \in {"Bin", "Zip"} /\ wpc = "flush"
    /\ rxOpen' = FALSE
    /\ chan' = <<>>
    /\ IF kind = "Bin"
       THEN wpc' = "done" /\ wres' = Ok(ledger)
       ELSE wpc' = "zip_extract" /\ UNCHANGED wres
    /\ UNCHANGED <<inputVars, guessVars, prodVars, txOpen, recvd, cur, fileVars, tarVars,
                   fsVars, zipCalls, runVars, result>>

\* write_stream_to_file: f.flush()?; f.into_inner(); the receiver is dropped
\* on return.  extract_bin then returns Ok(extracted_files).
Flush ==
    /\ kind \in {"Bin", "Zip"} /\ wpc = "flush"
    /\ \/ /\ fileData' = fileData \o wbuf
          /\ wbuf' = <<>>
          /\ rxOpen' = FALSE
          /\ chan' = <<>>
          /\ IF kind = "Bin"
             THEN wpc' = "done" /\ wres' = Ok(ledger)
             ELSE wpc' = "zip_extract" /\ UNCHANGED wres
       \/ /\ WorkerFail("EIO")
          /\ UNCHANGED <<wbuf, fileData>>
    /\ UNCHANGED <<inputVars, guessVars, prodVars, txOpen, recvd, cur, tarVars, fsVars,
                   zipCalls, runVars, result>>

\* What the zip collaborator unpacks from an archive it accepts.
ZipPayload == <<"z">>

\* extract_zip: do_extract_zip(file, path).map_err(io::Error::from)
ZipExtract ==
    /\ kind = "Zip" /\ wpc = "zip_extract"
    /\ zipCalls' = Append(zipCalls, fileData)
    /\ wpc' = "done"
    /\ \/ /\ wres' = Ok(add_file(NewLedger, ZipPayload))
          /\ ledger' = add_file(NewLedger, ZipPayload)
          /\ disk' = disk \cup {ZipPayload}
          /\ dstExists' = TRUE
       \/ /\ wres' = Err("BadArchive")
          /\ UNCHANGED <<ledger, disk, dstExists>>
    /\ UNCHANGED <<inputVars, guessVars, prodVars, chan, txOpen, rxOpen, recvd, cur,
                   fileVars, directories, unpackLog, parentExists, canon, dirs, runVars,
                   result>>

(***************************************************************************)
(* Tar entries and tar::Entry::unpack_in                                   *)
(***************************************************************************)
CurDir == "."
ParentDir == ".."
RootDir == "/"

\* The entries archives are built from: a file in a directory, a file with
\* a CurDir component, a read-only directory, a directory with a CurDir
\* component, a file and a directory that traverse upwards, and a symlink.
TarEntries ==
    { [type |-> "Regular",   path |-> <<"a", "b.txt">>,                 mode |-> "rw"],
      [type |-> "Regular",   path |-> <<".", "c">>,                     mode |-> "rw"],
      [type |-> "Directory", path |-> <<"a">>,                          mode |-> "ro"],
      [type |-> "Directory", path |-> <<".", "a">>,                     mode |-> "rw"],
      [type |-> "Regular",   path |-> <<"..", "..", "etc", "passwd">>,  mode |-> "rw"],
      [type |-> "Directory", path |-> <<"..", "d">>,                    mode |-> "rw"],
      [type |-> "Symlink",   path |-> <<"s">>,                          mode |-> "rw"] }

has_parent_dir(path) == \E i \in 1..Len(path) : path[i] = ParentDir

\* The location, relative to dst, that joining the path to dst names: root
\* and current-dir components do not move it.
strip(path) == SelectSeq(path, LAMBDA c : c \notin {CurDir, RootDir})

Prefixes(np) == {SubSeq(np, 1, k) : k \in 1..Len(np)}

\* The directories ds with those of ps that are missing created writable.
WithDirs(ds, ps) ==
    [p \in (DOMAIN ds) \cup ps |-> IF p \in DOMAIN ds THEN ds[p] ELSE "rw"]

\* A read-only directory refuses the creation of a child and the
\* replacement of a file in it; changing its own mode is allowed.
Blocked(e, np, ds) ==
    \E k \in 2..Len(np) :
        LET pk == SubSeq(np, 1, k)
            par == SubSeq(np, 1, k - 1)
        IN  /\ par \in DOMAIN ds /\ ds[par] = "ro"
            /\ \/ pk \notin DOMAIN ds
               \/ k = Len(np) /\ e.type # "Directory"

\* tar::Entry::unpack_in(dst): Ok(false) and nothing written when the path
\* has a ".." component; otherwise the entry is written under dst (a file
\* with its missing ancestors, a directory with the mode of its header).
unpack_in(e, dk, ds) ==
    IF has_parent_dir(e.path)
    THEN [res |-> Ok(FALSE), disk |-> dk, dirs |-> ds]
    ELSE LET np == strip(e.path) IN
         IF Blocked(e, np, ds)
         THEN [res |-> Err("EACCES"), disk |-> dk, dirs |-> ds]
         ELSE IF e.type = "Directory"
         THEN [res |-> Ok(TRUE), disk |-> dk,
               dirs |-> [WithDirs(ds, Prefixes(np)) EXCEPT ![np] = e.mode]]
         ELSE [res |-> Ok(TRUE), disk |-> dk \cup {np},
               dirs |-> WithDirs(ds, Prefixes(np) \ {np})]

(***************************************************************************)
(* extract_tar_based_stream: the closure                                   *)
(***************************************************************************)
Unreachable == <<"unreachable!()">>

\* The normalized_path loop: Prefix, RootDir and CurDir components are
\* skipped, Normal ones pushed, ParentDir is unreachable!().
normalized_path(path) ==
    IF has_parent_dir(path) THEN Unreachable
    ELSE SelectSeq(path, LAMBDA c : c \notin {CurDir, RootDir})

\* A slip: directories unpacked where they are met.
tar_dispatch_eager(e) ==
    CASE e.type = "Regular" -> "unpack"
      [] e.type = "Directory" -> "unpack"
      [] OTHER -> "skip"

\* A slip: entries of the other types unpacked like regular files.
tar_dispatch_any_type(e) ==
    CASE e.type = "Regular" -> "unpack"
      [] e.type = "Directory" -> "buffer"
      [] OTHER -> "unpack"

\* `match entry.header().entry_type()`
tar_dispatch(e) ==
    CASE e.type = "Regular" -> "unpack"
      [] e.type = "Directory" -> "buffer"
      [] OTHER -> "skip"

\* A slip: the result of unpack_in ignored.
dir_is_recorded_always(unpacked) == TRUE

\* A slip: the file recorded whatever unpack_in returned.
file_is_recorded_always(unpacked) == TRUE

\* `if entry.unpack_in(dst)? {` and `if dir.unpack_in(dst)? {`
file_is_recorded(unpacked) == unpacked
dir_is_recorded(unpacked) == unpacked

\* The ledger after the unpack_in of an entry returned Ok(unpacked).
record_entry(l, e, unpacked) ==
    IF e.type = "Directory"
    THEN IF dir_is_recorded(unpacked) THEN add_dir(l, e.path) ELSE l
    ELSE IF file_is_recorded(unpacked) THEN add_file(l, normalized_path(e.path)) ELSE l

\* A slip: the error of canonicalize propagated with `?`.
canonicalize_or_fail(ok) == IF ok THEN Ok("Owned") ELSE Err("ENOCANON")

\* dst.canonicalize().map(Cow::Owned).unwrap_or(Cow::Borrowed(dst)): the
\* destination the entries are unpacked in, ok telling whether canonicalize
\* succeeded.
canonicalize_or_borrow(ok) == IF ok THEN Ok("Owned") ELSE Ok("Borrowed")

\* Lines 74-89: the destination is created if the symlink_metadata probe
\* fails, canonicalized if possible, and the tar reader is opened.
TarMkDst ==
    /\ kind = "Tar" /\ wpc = "tar_mkdst"
    /\ \/ /\ dstExists' = TRUE
          /\ \E c \in BOOLEAN :
                /\ canon' = c
                /\ IF canonicalize_or_borrow(c)[1] = "Ok"
                   THEN wpc' = "tar_next" /\ UNCHANGED <<wres, rxOpen, chan>>
                   ELSE WorkerFail(canonicalize_or_borrow(c)[2])
       \/ /\ WorkerFail("EIO")
          /\ UNCHANGED <<dstExists, canon>>
    /\ UNCHANGED <<inputVars, guessVars, prodVars, txOpen, recvd, cur, fileVars, tarVars,
                   parentExists, disk, dirs, zipCalls, runVars, result>>

\* `while let Some(mut entry) = entries.next().transpose()?` and the match
\* on the entry type; each chunk of the stream carries one entry.
TarNext ==
    /\ kind = "Tar" /\ wpc = "tar_next"
    /\ \/ /\ chan # <<>>
          /\ LET e == chan_take(chan).item IN
             /\ recvd' = Append(recvd, e)
             /\ chan' = chan_take(chan).rest
             /\ CASE tar_dispatch(e) = "unpack" ->
                       cur' = Some(e) /\ wpc' = "tar_unpack" /\ UNCHANGED directories
                  [] tar_dispatch(e) = "buffer" ->
                       directories' = Append(directories, e) /\ UNCHANGED <<cur, wpc>>
                  [] OTHER -> UNCHANGED <<cur, wpc, directories>>
          /\ UNCHANGED <<wres, rxOpen>>
       \/ /\ chan # <<>>
          /\ recvd' = Append(recvd, chan_take(chan).item)
          /\ WorkerFail("BadArchive")
          /\ UNCHANGED <<cur, directories>>
       \/ /\ chan = <<>> /\ ~txOpen
          /\ wpc' = "tar_dirs"
          /\ UNCHANGED <<recvd, chan, cur, directories, wres, rxOpen>>
    /\ UNCHANGED <<inputVars, guessVars, prodVars, txOpen, fileVars, ledger, unpackLog,
                   fsVars, zipCalls, runVars, result>>

\* The unpack_in of entry e and what follows it in the closure.  unpack_in
\* touches the filesystem only after its ".." check, so only then can the
\* environment fail it.
TarUnpack(e, next) ==
    LET r == unpack_in(e, disk, dirs) IN
    \/ /\ r.res[1] = "Ok"
       /\ disk' = r.disk /\ dirs' = r.dirs
       /\ unpackLog' = Append(unpackLog,
              [entry |-> e, outcome |-> IF r.res[2] THEN "unpacked" ELSE "skipped"])
       /\ IF record_entry(ledger, e, r.res[2]).files \cap {Unreachable} # {}
          THEN WorkerFail("panic") /\ UNCHANGED ledger
          ELSE /\ ledger' = record_entry(ledger, e, r.res[2])
               /\ wpc' = next
               /\ UNCHANGED <<wres, rxOpen, chan>>
    \/ /\ r.res[1] = "Err"
       /\ WorkerFail(r.res[2])
       /\ unpackLog' = Append(unpackLog, [entry |-> e, outcome |-> "failed"])
       /\ UNCHANGED <<disk, dirs, ledger>>
    \/ /\ ~has_parent_dir(e.path)
       /\ WorkerFail("EIO")
       /\ unpackLog' = Append(unpackLog, [entry |-> e, outcome |-> "failed"])
       /\ UNCHANGED <<disk, dirs, ledger>>

\* Lines 103-124: a regular file is unpacked and recorded.
TarUnpackFile ==
    /\ kind = "Tar" /\ wpc = "tar_unpack"
    /\ TarUnpack(cur[2], "tar_next")
    /\ cur' = None
    /\ UNCHANGED <<inputVars, guessVars, prodVars, txOpen, recvd, fileVars, directories,
                   parentExists, dstExists, canon, zipCalls, runVars, result>>

\* `for mut dir in directories`
next_dir(ds) == [item |-> Head(ds), rest |-> Tail(ds)]

\* Lines 133-137: the buffered directories are unpacked and recorded.
TarUnpackDir ==
    /\ kind = "Tar" /\ wpc = "tar_dirs" /\ directories # <<>>
    /\ TarUnpack(next_dir(directories).item, "tar_dirs")
    /\ directories' = next_dir(directories).rest
    /\ UNCHANGED <<inputVars, guessVars, prodVars, txOpen, recvd, cur, fileVars,
                   parentExists, dstExists, canon, zipCalls, runVars, result>>

\* Line 139: Ok(extracted_files)
TarReturn ==
    /\ kind = "Tar" /\ wpc = "tar_dirs" /\ directories = <<>>
    /\ wpc' = "done"
    /\ wres' = Ok(ledger)
    /\ rxOpen' = FALSE
    /\ chan' = <<>>
    /\ UNCHANGED <<inputVars, guessVars, prodVars, txOpen, recvd, cur, fileVars, tarVars,
                   fsVars, zipCalls, runVars, result>>

\* A second extraction of the same archive into the same destination, once
\* the first call has returned Ok: everything but the filesystem starts anew.
Rerun ==
    /\ kind = "Tar" /\ run = 1
    /\ ppc = "done" /\ wpc = "done" /\ result[1] = "Ok"
    /\ run' = 2
    /\ ledger1' = result[2]
    /\ ppc' = "next" /\ pulled' = 0 /\ held' = None
    /\ chan' = <<>> /\ txOpen' = TRUE /\ rxOpen' = TRUE
    /\ wpc' = "mkparent" /\ wres' = NoResult /\ recvd' = <<>> /\ cur' = None
    /\ directories' = <<>> /\ ledger' = NewLedger /\ unpackLog' = <<>>
    /\ result' = NoResult
    /\ UNCHANGED <<inputVars, guessVars, fileVars, fsVars, zipCalls>>

(***************************************************************************)
(* extract_bz2: runs on the async side, without the bridge                 *)
(***************************************************************************)
\* The bzip2 decoder is a collaborator: what it makes of a chunk it accepts.
Decompress(data) == [i \in 1..Len(data) |-> data[i] + 10]

\* extract_bz2: extracted_files.add_file(Path::new(path.file_name().unwrap()))
bz2_ledger(path) == add_file(NewLedger, file_name(path))

\* File::create(path).await?
Bz2Create ==
    /\ kind = "Bz2" /\ ppc = "bz_create"
    /\ \/ /\ parentExists
          /\ fileData' = <<>>
          /\ ppc' = "bz_copy"
          /\ UNCHANGED result
       \/ /\ result' = Err(IF parentExists THEN "EIO" ELSE "ENOENT")
          /\ ppc' = "done"
          /\ UNCHANGED fileData
    /\ UNCHANGED <<inputVars, guessVars, pulled, held, chan, txOpen, rxOpen, workVars,
                   wbuf, tarVars, fsVars, zipCalls, runVars>>

\* tokio::io::copy(&mut decoder, &mut file).await?: a chunk is read from the
\* stream, decoded and written; a download error becomes the io::Error.
Bz2Copy ==
    /\ kind = "Bz2" /\ ppc = "bz_copy"
    /\ \/ /\ pulled < Len(source) /\ source[pulled + 1] # ErrItem
          /\ pulled' = pulled + 1
          /\ \/ /\ wbuf' = wbuf \o Decompress(source[pulled + 1][2])
                /\ UNCHANGED <<ppc, result>>
             \/ /\ \E e \in {"BadArchive", "EIO"} : result' = Err(e)
                /\ ppc' = "done"
                /\ UNCHANGED wbuf
       \/ /\ pulled < Len(source) /\ source[pulled + 1] = ErrItem
          /\ pulled' = pulled + 1
          /\ result' = Err(DownloadError)
          /\ ppc' = "done"
          /\ UNCHANGED wbuf
       \/ /\ pulled = Len(source)
          /\ ppc' = "bz_flush"
          /\ UNCHANGED <<pulled, wbuf, result>>
    /\ UNCHANGED <<inputVars, guessVars, held, chan, txOpen, rxOpen, workVars, fileData,
                   tarVars, fsVars, zipCalls, runVars>>

\* file.flush().await?; add_file(file_name); Ok(extracted_files)
Bz2Flush ==
    /\ kind = "Bz2" /\ ppc = "bz_flush"
    /\ \/ /\ fileData' = fileData \o wbuf
          /\ wbuf' = <<>>
          /\ ledger' = bz2_ledger(dst)
          /\ result' = Ok(bz2_ledger(dst))
       \/ /\ result' = Err("EIO")
          /\ UNCHANGED <<fileData, wbuf, ledger>>
    /\ ppc' = "done"
    /\ UNCHANGED <<inputVars, guessVars, pulled, held, chan, txOpen, rxOpen, workVars,
                   directories, unpackLog, fsVars, zipCalls, runVars>>

(***************************************************************************)
(* guess_pkg_format applied to the input                                   *)
(***************************************************************************)
Guess ==
    /\ kind = "Guess" /\ guessed = Pending
    /\ guessed' = guess_pkg_format(url)
    /\ UNCHANGED <<inputVars, url, tfmt, fmt, decomposed, prodVars, chan, txOpen, rxOpen, workVars, fileVars,
                   tarVars, fsVars, zipCalls, runVars, result>>

(***************************************************************************)
(* PkgFmt::from and decompose applied to the input                         *)
(***************************************************************************)
From ==
    /\ kind = "Formats" /\ tfmt # None /\ fmt = Pending
    /\ fmt' = <<from(tfmt[1]), from(tfmt[2])>>
    /\ UNCHANGED <<inputVars, url, guessed, tfmt, decomposed, prodVars, chan, txOpen,
                   rxOpen, workVars, fileVars, tarVars, fsVars, zipCalls, runVars, result>>

Decompose ==
    /\ kind = "Formats" /\ fmt # Pending /\ decomposed = Pending
    /\ decomposed' = <<decompose(fmt[1]), decompose(fmt[2])>>
    /\ UNCHANGED <<inputVars, url, guessed, tfmt, fmt, prodVars, chan, txOpen, rxOpen,
                   workVars, fileVars, tarVars, fsVars, zipCalls, runVars, result>>

(***************************************************************************)
(* Initial states                                                          *)
(***************************************************************************)
FilePaths == {<<"tool">>, <<"out", "tool">>}
DirPaths == {<<"out", "pkg">>}

\* No format is being converted or decomposed in this call.
NoFormats == tfmt = None /\ fmt = Pending /\ decomposed = Pending

NoGuess == url = <<"">> /\ guessed = Pending /\ NoFormats

\* Nothing has run yet: the channel is made and the closure is spawned.
CallStart ==
    /\ pulled = 0 /\ held = None
    /\ chan = <<>> /\ txOpen = TRUE /\ rxOpen = TRUE
    /\ wres = NoResult /\ recvd = <<>> /\ cur = None
    /\ wbuf = <<>>
    /\ directories = <<>> /\ ledger = NewLedger /\ unpackLog = <<>>
    /\ canon = FALSE /\ disk = {} /\ dirs = <<>>
    /\ zipCalls = <<>>
    /\ run = 1 /\ ledger1 = NewLedger
    /\ result = NoResult

\* A call whose channel has the capacity ChanCap.
FreshCall == CallStart /\ cap = ChanCap

InitGuess ==
    /\ kind = "Guess"
    /\ url \in Urls /\ guessed = Pending
    /\ NoFormats
    /\ source = <<>> /\ dst = <<>>
    /\ ppc = "none" /\ wpc = "none"
    /\ FreshCall
    /\ fileData = Absent /\ parentExists = TRUE /\ dstExists = TRUE

\* The destination file: its parent may be missing, and it may exist.
InitFile ==
    /\ dst \in FilePaths
    /\ dstExists \in BOOLEAN
    /\ parentExists \in (IF Len(dst) = 1 \/ dstExists THEN {TRUE} ELSE BOOLEAN)
    /\ fileData = IF dstExists THEN <<9>> ELSE Absent

InitBin ==
    /\ kind = "Bin" /\ NoGuess
    /\ source \in Sources(ByteChunks, MaxChunks)
    /\ InitFile
    /\ ppc = "next" /\ wpc = "mkparent"
    /\ FreshCall

InitBz2 ==
    /\ kind = "Bz2" /\ NoGuess
    /\ source \in Sources(ByteChunks, MaxChunks)
    /\ InitFile
    /\ ppc = "bz_create" /\ wpc = "none"
    /\ FreshCall

\* The destination directory: it, or it and its parent, may be missing.
InitDir ==
    /\ dst \in DirPaths
    /\ dstExists \in BOOLEAN
    /\ parentExists \in (IF dstExists THEN {TRUE} ELSE BOOLEAN)
    /\ fileData = Absent

InitZip ==
    /\ kind = "Zip" /\ NoGuess
    /\ source \in Sources(ByteChunks, MaxChunks)
    /\ InitDir
    /\ ppc = "next" /\ wpc = "mkparent"
    /\ FreshCall

InitTar ==
    /\ kind = "Tar" /\ NoGuess
    /\ source \in Sources(TarEntries, MaxEntries)
    /\ InitDir
    /\ ppc = "next" /\ wpc = "mkparent"
    /\ FreshCall

\* decompose applied to two formats, given as PkgFmt values or as the
\* TarBasedFmt values they are converted from.
InitFormats ==
    /\ kind = "Formats"
    /\ url = <<"">> /\ guessed = Pending
    /\ \/ tfmt = None /\ fmt \in PkgFmt \X PkgFmt
       \/ tfmt \in TarBasedFmt \X TarBasedFmt /\ fmt = Pending
    /\ decomposed = Pending
    /\ source = <<>> /\ dst = <<>>
    /\ ppc = "none" /\ wpc = "none"
    /\ FreshCall
    /\ fileData = Absent /\ parentExists = TRUE /\ dstExists = TRUE

Init == InitGuess \/ InitFormats \/ InitBin \/ InitBz2 \/ InitZip \/ InitTar

(***************************************************************************)
(* Specifications                                                          *)
(***************************************************************************)
Bridge ==
    \/ PullChunk \/ PullError \/ ReturnStreamError \/ PullEnd
    \/ Send \/ SendClosed \/ Join \/ EarlyJoin
    \/ MkParent

FileWorker == BinCreate \/ ZipTmp \/ Recv \/ WriteAll \/ Flush \/ ZipExtract

TarWorker == TarMkDst \/ TarNext \/ TarUnpackFile \/ TarUnpackDir \/ TarReturn \/ Rerun

Bz2Task == Bz2Create \/ Bz2Copy \/ Bz2Flush

Formats == From \/ Decompose

Next == Guess \/ Formats \/ Bridge \/ FileWorker \/ TarWorker \/ Bz2Task

Spec == Init /\ [][Next]_vars

\* decompose and PkgFmt::from over every pair of formats.
SpecFormats == InitFormats /\ [][Formats]_vars

\* guess_pkg_format over every pkg_url of at most MaxTokens tokens.
SpecGuess == InitGuess /\ [][Guess]_vars

\* extract_bin and extract_zip through the bridge.
NextFile == Bridge \/ FileWorker
SpecFile == (InitBin \/ InitZip) /\ [][NextFile]_vars

\* extract_tar_based_stream through the bridge, run once or twice.
NextTar == Bridge \/ TarWorker
SpecTar == InitTar /\ [][NextTar]_vars

\* extract_bin, extract_zip and extract_tar_based_stream through the bridge.
NextBridge == Bridge \/ FileWorker \/ TarWorker
SpecBridge == (InitBin \/ InitZip \/ InitTar) /\ [][NextBridge]_vars

\* The single-file extractors, extract_bin and extract_bz2.
NextSingle == Bridge \/ BinCreate \/ Recv \/ WriteAll \/ Flush \/ Bz2Task
SpecSingle == (InitBin \/ InitBz2) /\ [][NextSingle]_vars

\* One call through the bridge under fair scheduling: the runtime polls the
\* caller's future whenever it can make a step (the stream always yields
\* its next item), and the blocking thread of the worker is scheduled.
AsyncSide ==
    \/ PullChunk \/ PullError \/ ReturnStreamError \/ PullEnd
    \/ Send \/ SendClosed \/ Join \/ EarlyJoin
WorkerThread ==
    \/ MkParent \/ FileWorker
    \/ TarMkDst \/ TarNext \/ TarUnpackFile \/ TarUnpackDir \/ TarReturn
NextCall == AsyncSide \/ WorkerThread
\* The archives of these calls: a file, a directory and an entry of another
\* type, in every order (which step comes next depends on the type of an
\* entry and on the outcome of its unpack_in only).
CallEntries == {e \in TarEntries : e.path \in {<<"a", "b.txt">>, <<"a">>, <<"s">>}}
\* A call of extract_bin, extract_zip or extract_tar_based_stream, the
\* channel having any capacity from 1 to ChanCap.
InitCall ==
    /\ NoGuess
    /\ \/ kind = "Bin" /\ source \in Sources(ByteChunks, MaxChunks) /\ InitFile
       \/ kind = "Zip" /\ source \in Sources(ByteChunks, MaxChunks) /\ InitDir
       \/ kind = "Tar" /\ source \in Sources(CallEntries, MaxEntries) /\ InitDir
    /\ ppc = "next" /\ wpc = "mkparent"
    /\ CallStart
    /\ cap \in 1..ChanCap
SpecCallFair ==
    /\ InitCall
    /\ [][NextCall]_vars
    /\ WF_vars(AsyncSide)
    /\ WF_vars(WorkerThread)

(***************************************************************************)
(* Properties of guess_pkg_format (checked under SpecGuess)                *)
(***************************************************************************)
Guessed == kind = "Guess" /\ guessed # Pending
LastToken == url[Len(url)]
SecondLastIs(t) == Len(url) >= 2 /\ url[Len(url) - 1] = t
\* The pkg_url is `<stem>.<s>` with a non-empty stem.
HasStem == Len(url) >= 2 /\ SubSeq(url, 1, Len(url) - 1) # <<"">>

RecognizedSuffixes == {"tar", "tbz2", "bz2", "tgz", "gz", "txz", "xz", "tzstd", "tzst",
                       "zst", "exe", "bin", "zip"}

\* C5: for every `<stem>.<s>` with a non-empty stem, the result is Some(Bin)
\* for s in {exe, bin}, Some(Zip) for zip and Some(Tar) for tar.
C5_SingleSuffix ==
    (Guessed /\ HasStem) =>
        /\ LastToken \in {"exe", "bin"} => guessed = Some("Bin")
        /\ LastToken = "zip" => guessed = Some("Zip")
        /\ LastToken = "tar" => guessed = Some("Tar")

ShortTarFmt(s) == CASE s = "tbz2" -> "Tbz2"
                    [] s = "tgz" -> "Tgz"
                    [] s = "txz" -> "Txz"
                    [] s \in {"tzstd", "tzst"} -> "Tzstd"

\* C6: for every `<stem>.<s>` with a non-empty stem and s one of tbz2, tgz,
\* txz, tzstd, tzst, the result is Some of the corresponding tar format, also
\* when the stem has no further dot.
C6_ShortTarSuffix ==
    (Guessed /\ HasStem /\ LastToken \in {"tbz2", "tgz", "txz", "tzstd", "tzst"}) =>
        guessed = Some(ShortTarFmt(LastToken))

\* C7 as stated: for every pkg_url whose last token is bz2 the result is
\* Some(Tbz2) if the second-last token is tar and Some(Bz2) otherwise, never
\* None.
C7_Bz2NeverNone ==
    (Guessed /\ LastToken = "bz2") =>
        guessed = IF SecondLastIs("tar") THEN Some("Tbz2") ELSE Some("Bz2")

\* C7 amended: for every pkg_url whose last token is bz2 the result is
\* Some(Tbz2) if the second-last token is tar and something precedes it
\* (`<rest>.tar.bz2`), None if the pkg_url is exactly `tar.bz2`, and
\* Some(Bz2) otherwise.
C7_Bz2Disambiguation ==
    (Guessed /\ LastToken = "bz2") =>
        guessed = IF SecondLastIs("tar")
                  THEN (IF Len(url) >= 3 THEN Some("Tbz2") ELSE None)
                  ELSE Some("Bz2")

C7_Witness ==
    /\ Guessed /\ LastToken = "bz2" /\ SecondLastIs("tar") /\ Len(url) >= 3
    /\ guessed = Some("Tbz2")

CompoundFmt(s) == CASE s = "gz" -> "Tgz" [] s = "xz" -> "Txz" [] s = "zst" -> "Tzstd"

\* C8: for a last token gz, xz or zst the result is Some(Tgz), Some(Txz) or
\* Some(Tzstd) when the pkg_url is `<stem>.tar.<s>` and None whenever the
\* second-last token is not tar; for a last token that is no recognized
\* suffix the result is None.
C8_CompoundSuffix ==
    Guessed =>
        /\ (LastToken \in {"gz", "xz", "zst"} /\ SecondLastIs("tar") /\ Len(url) >= 3)
              => guessed = Some(CompoundFmt(LastToken))
        /\ (LastToken \in {"gz", "xz", "zst"} /\ ~SecondLastIs("tar"))
              => guessed = None
        /\ LastToken \notin RecognizedSuffixes => guessed = None

C8_Witness ==
    /\ Guessed /\ LastToken = "xz" /\ SecondLastIs("tar") /\ Len(url) >= 3
    /\ guessed = Some("Txz")

(***************************************************************************)
(* Properties of extract_tar_based_stream (checked under SpecTar)          *)
(***************************************************************************)
\* The ledgers a call has: the one being built and the ones returned.
LedgersInSight ==
    {ledger} \cup (IF wres[1] = "Ok" THEN {wres[2]} ELSE {})
             \cup (IF result[1] = "Ok" THEN {result[2]} ELSE {})

\* What extracting the entries es of an archive must record.
ExpectedLedger(es) ==
    [files |-> {normalized_path(es[i].path) :
                    i \in {j \in 1..Len(es) : /\ es[j].type = "Regular"
                                              /\ ~has_parent_dir(es[j].path)}},
     dirs  |-> {es[i].path :
                    i \in {j \in 1..Len(es) : /\ es[j].type = "Directory"
                                              /\ ~has_parent_dir(es[j].path)}}]

\* C1: an entry whose path has a ".." component is never written outside
\* the destination and never appears in the ledger, its unpack_in is a skip
\* and not a failure, and a call that returns success has unpacked and
\* recorded every other regular-file and directory entry of the archive.
C1_TraversalSkipped ==
    kind = "Tar" =>
        /\ \A loc \in disk \cup DOMAIN dirs : ~has_parent_dir(loc)
        /\ \A l \in LedgersInSight : \A p \in l.files \cup l.dirs : ~has_parent_dir(p)
        /\ \A i \in 1..Len(unpackLog) :
              has_parent_dir(unpackLog[i].entry.path) => unpackLog[i].outcome = "skipped"
        /\ wres # Err("panic")
        /\ (run = 1 /\ result[1] = "Ok") =>
              /\ ExpectedLedger(SourceChunks(source)).files \subseteq result[2].files
              /\ ExpectedLedger(SourceChunks(source)).dirs \subseteq result[2].dirs
              /\ ExpectedLedger(SourceChunks(source)).files \subseteq disk
              /\ \A d \in ExpectedLedger(SourceChunks(source)).dirs : strip(d) \in DOMAIN dirs

C1_Witness ==
    /\ kind = "Tar" /\ run = 1 /\ result[1] = "Ok"
    /\ \E i \in 1..Len(unpackLog) :
          /\ unpackLog[i].entry.type = "Regular"
          /\ has_parent_dir(unpackLog[i].entry.path)
    /\ \E i \in 1..Len(unpackLog) :
          /\ unpackLog[i].entry.type = "Directory"
          /\ has_parent_dir(unpackLog[i].entry.path)
    /\ <<"a", "b.txt">> \in result[2].files
    /\ <<"a", "b.txt">> \in disk

\* The chunks the async side has taken from the stream so far.
PulledChunks == SourceChunks(SubSeq(source, 1, pulled))

LogOf(type) == SelectSeq(unpackLog, LAMBDA u : u.entry.type = type)

\* C2: no directory entry is unpacked before the entry iterator is
\* exhausted, so every regular-file unpack precedes every directory unpack
\* (and no file is refused by a read-only directory of its own archive), and
\* the buffered directories are unpacked in the order they were met.
C2_DirectoriesDeferred ==
    kind = "Tar" =>
        /\ LogOf("Directory") # <<>> =>
              /\ chan = <<>> /\ ~txOpen
              /\ recvd = PulledChunks
              /\ wpc \in {"tar_dirs", "done"}
        /\ \A i, j \in 1..Len(unpackLog) :
              (unpackLog[i].entry.type = "Directory" /\ unpackLog[j].entry.type = "Regular")
                  => j < i
        /\ run = 1 => wres # Err("EACCES")
        /\ IsPrefix([i \in 1..Len(LogOf("Directory")) |-> LogOf("Directory")[i].entry],
                    SelectSeq(recvd, LAMBDA e : e.type = "Directory"))

C2_Witness ==
    /\ kind = "Tar" /\ run = 1 /\ result[1] = "Ok"
    /\ Len(recvd) = 3
    /\ recvd[1].type = "Directory" /\ recvd[1].mode = "ro"
    /\ recvd[2].type = "Regular" /\ recvd[2].path = <<"a", "b.txt">>
    /\ recvd[3].type = "Directory" /\ recvd[3] # recvd[1]
    /\ Len(unpackLog) = 3
    /\ unpackLog[1].entry = recvd[2] /\ unpackLog[1].outcome = "unpacked"
    /\ unpackLog[2].entry = recvd[1] /\ unpackLog[2].outcome = "unpacked"
    /\ unpackLog[3].entry = recvd[3]

\* C9: a second extraction of the same archive into the destination the
\* first one left succeeds again with the ledger of the first, read-only
\* directories included (failures of the environment aside).
C9_RerunSameLedger ==
    (kind = "Tar" /\ run = 2 /\ result # NoResult
        /\ result \notin {Err("EIO"), Err("BadArchive")})
    => result = Ok(ledger1)

(***************************************************************************)
(* Properties of the stream bridge (checked under SpecBridge)              *)
(***************************************************************************)
\* The async side has taken the download error from the stream.
ErrorPulled == pulled >= 1 /\ source[pulled] = ErrItem

C4_FifoDelivery ==
    asyncSide =>
        /\ IsPrefix(recvd, PulledChunks)
        /\ rxOpen =>
              recvd \o chan \o (IF held = None THEN <<>> ELSE <<held[2]>>) = PulledChunks
        /\ (kind = "Bin" /\ result[1] = "Ok") =>
              /\ recvd = SourceChunks(source)
              /\ fileData = Concat(SourceChunks(source))

C4_Witness ==
    /\ kind = "Bin" /\ result[1] = "Ok"
    /\ Len(SourceChunks(source)) = MaxChunks
    /\ source[1] # source[2]
    /\ fileData = Concat(SourceChunks(source))

(***************************************************************************)
(* Properties of the single-file extractors (checked under SpecSingle)     *)
(***************************************************************************)
\* C10: a successful extract_bin or extract_bz2 returns a ledger of exactly
\* one file, the final component of the destination path, and no directory;
\* a failed call returns an error and no ledger.
C10_SingleFileLedger ==
    (kind \in {"Bin", "Bz2"} /\ result # NoResult) =>
        \/ /\ result[1] = "Ok"
           /\ result[2] = [files |-> {<<dst[Len(dst)]>>}, dirs |-> {}]
        \/ /\ result[1] = "Err"
           /\ result[2] \in {"EIO", "ENOENT", "BadArchive", DownloadError}

C10_Witness ==
    /\ kind = "Bin" /\ result[1] = "Ok"
    /\ Len(dst) = 2
    /\ result[2].files = {<<"tool">>}

(***************************************************************************)
(* Properties of all four extractors (checked under Spec)                  *)
(***************************************************************************)
Extracting == kind \in {"Bin", "Bz2", "Zip", "Tar"}

\* C11: every extractor creates the missing parent of its destination
\* before it creates the destination file or directory, so that no call
\* fails because the parent of the destination does not exist.
C11_ParentCreated ==
    Extracting =>
        /\ (kind \in {"Bin", "Bz2"} /\ fileData # Absent) => parentExists
        /\ (kind \in {"Zip", "Tar"} /\ dstExists) => parentExists
        /\ wres # Err("ENOENT")
        /\ result # Err("ENOENT")

(***************************************************************************)
(* Properties of extract_zip (checked under SpecFile)                      *)
(***************************************************************************)
\* The order of extract_zip: do_extract_zip is called at most once, after
\* the channel was seen closed and every chunk received was flushed into the
\* temporary file; a failure before that leaves the collaborator uncalled
\* and the destination untouched.
ZipOrdering ==
    /\ Len(zipCalls) <= 1
    /\ zipCalls # <<>> =>
          /\ ~txOpen /\ chan = <<>>
          /\ recvd = PulledChunks
          /\ wbuf = <<>>
          /\ zipCalls[1] = Concat(recvd)
    /\ wres \in {Err("EIO"), Err("ENOENT")} => (zipCalls = <<>> /\ disk = {})

\* C12 as stated: do_extract_zip is invoked at most once and only after the
\* worker saw the channel closed and flushed every received chunk; if the
\* creation of the temporary file or a write or flush fails, the call fails
\* with that error, the collaborator is never invoked and nothing is
\* written to the destination.
C12_ZipFailsWithWriteError ==
    kind = "Zip" =>
        /\ ZipOrdering
        \* fileData # Absent: the temporary file was made, a write or the
        \* flush is what failed.
        /\ (wres = Err("EIO") /\ fileData # Absent /\ result # NoResult) =>
              result = Err("EIO")

\* C12 amended: as stated, except that the call fails with the error of the
\* temporary file only if the stream has not failed: once the download
\* error has been read from the stream, that error is the result.
C12_ZipAfterDrain ==
    kind = "Zip" =>
        /\ ZipOrdering
        /\ (wres = Err("EIO") /\ result # NoResult) =>
              result = IF ErrorPulled THEN Err(DownloadError) ELSE Err("EIO")

C12_Witness ==
    /\ kind = "Zip" /\ result[1] = "Ok"
    /\ Len(SourceChunks(source)) = MaxChunks
    /\ Len(zipCalls) = 1
    /\ zipCalls[1] = Concat(SourceChunks(source))
    /\ ZipPayload \in disk

(***************************************************************************)
(* Properties of decompose and PkgFmt::from (checked under SpecFormats)    *)
(***************************************************************************)
TarFamily == {"Tar", "Tbz2", "Tgz", "Txz", "Tzstd"}

\* C13: decompose is total over the eight formats, gives Tar(sub) exactly
\* for Tar, Tbz2, Tgz, Txz and Tzstd and the shapes Bin, Zip and Bz2 for
\* the formats of those names, no two formats having the same shape;
\* PkgFmt::from is injective, and decompose(PkgFmt::from(t)) = Tar(t).
C13_DecomposeRoundTrip ==
    kind = "Formats" =>
        /\ decomposed # Pending =>
              /\ \A i \in 1..2 :
                    /\ decomposed[i] \in PkgFmtDecomposed
                    /\ decomposed[i][1] = "Tar" <=> fmt[i] \in TarFamily
                    /\ fmt[i] \notin TarFamily => decomposed[i] = <<fmt[i]>>
              /\ decomposed[1] = decomposed[2] => fmt[1] = fmt[2]
        /\ (tfmt # None /\ fmt # Pending) =>
              /\ \A i \in 1..2 : fmt[i] \in TarFamily
              /\ fmt[1] = fmt[2] => tfmt[1] = tfmt[2]
        /\ (tfmt # None /\ decomposed # Pending) =>
              \A i \in 1..2 : decomposed[i] = <<"Tar", tfmt[i]>>

C13_Witness ==
    /\ kind = "Formats"
    /\ tfmt = <<"TarBasedFmt::Tbz2", "TarBasedFmt::Tgz">>
    /\ fmt = <<"Tbz2", "Tgz">>
    /\ decomposed = <<<<"Tar", "TarBasedFmt::Tbz2">>, <<"Tar", "TarBasedFmt::Tgz">>>>

(***************************************************************************)
(* The ledger and the errors of extract_tar_based_stream (under SpecTar)   *)
(***************************************************************************)
\* The paths of the entries of a type whose unpack_in returned true so far.
UnpackedPaths(type) ==
    {unpackLog[i].entry.path :
        i \in {j \in 1..Len(unpackLog) : /\ unpackLog[j].entry.type = type
                                         /\ unpackLog[j].outcome = "unpacked"}}

\* The entries of a type that the archive holds.
SourceEntries(type) ==
    {SourceChunks(source)[i] :
        i \in {j \in 1..Len(SourceChunks(source)) : SourceChunks(source)[j].type = type}}

\* C14: at every step the files of the ledger are exactly the Regular
\* entries whose unpack_in has returned true and its directories exactly
\* the Directory entries whose unpack_in has returned true, every recorded
\* path having been written under the destination; entries of other types
\* are neither unpacked nor recorded; a call that returns success has
\* unpacked every Regular and Directory entry of the archive and returns
\* that ledger.
C14_LedgerExact ==
    kind = "Tar" =>
        /\ ledger.files = {normalized_path(p) : p \in UnpackedPaths("Regular")}
        /\ ledger.dirs = UnpackedPaths("Directory")
        /\ \A i \in 1..Len(unpackLog) : unpackLog[i].entry.type \in {"Regular", "Directory"}
        /\ \A p \in ledger.files : p \in disk
        /\ \A d \in ledger.dirs : strip(d) \in DOMAIN dirs
        /\ wres[1] = "Ok" =>
              /\ wres[2] = ledger
              /\ {unpackLog[i].entry : i \in 1..Len(unpackLog)}
                    = SourceEntries("Regular") \cup SourceEntries("Directory")
        /\ result[1] = "Ok" => result = wres

C14_Witness ==
    /\ kind = "Tar" /\ run = 1 /\ result[1] = "Ok"
    /\ Len(recvd) = 3
    /\ \E i \in 1..3 : recvd[i].type = "Symlink"
    /\ \E i \in 1..3 : recvd[i].type = "Directory" /\ has_parent_dir(recvd[i].path)
    /\ Len(unpackLog) = 2
    /\ result[2] = [files |-> {<<"a", "b.txt">>}, dirs |-> {}]
    /\ disk = {<<"a", "b.txt">>}

\* The entries unpack_in was called on, in order.
LogEntries(type) == [i \in 1..Len(LogOf(type)) |-> LogOf(type)[i].entry]

\* The entries the iteration has yielded: what came out of the channel,
\* without the item on which the iteration failed.
Yielded(type) ==
    SelectSeq(IF wres = Err("BadArchive") THEN SubSeq(recvd, 1, Len(recvd) - 1) ELSE recvd,
              LAMBDA e : e.type = type)

\* What a failed extraction leaves: the closure has returned an I/O error
\* of the creation of the destination, of the iteration or of an unpack_in;
\* the unpack_in that failed is the last one made, the entry that broke the
\* iteration and the directories still buffered were never unpacked, no
\* ledger is returned, and what was unpacked before is still there.
TarAborted ==
    /\ wres[1] = "Err" =>
          /\ wpc = "done"
          /\ wres[2] \in {"EIO", "BadArchive", "EACCES"}
          /\ result[1] # "Ok"
    /\ \A i \in 1..Len(unpackLog) :
          unpackLog[i].outcome = "failed" => (i = Len(unpackLog) /\ wres[1] = "Err")
    /\ wres = Err("BadArchive") =>
          /\ LogEntries("Regular") = Yielded("Regular")
          /\ LogOf("Directory") = <<>>
    /\ IsPrefix(LogEntries("Regular"), Yielded("Regular"))
    /\ LogOf("Directory") # <<>> => LogEntries("Regular") = Yielded("Regular")
    /\ LogEntries("Directory") \o directories = Yielded("Directory")
    /\ \A p \in UnpackedPaths("Regular") : strip(p) \in disk
    /\ \A d \in UnpackedPaths("Directory") : strip(d) \in DOMAIN dirs

\* The closure has returned the error of the iteration or of an unpack_in.
IterationOrUnpackFailed ==
    \/ wres = Err("BadArchive")
    \/ /\ wres[1] = "Err"
       /\ unpackLog # <<>> /\ unpackLog[Len(unpackLog)].outcome = "failed"

\* C15 as stated: when the iteration or the unpack_in of an entry returns an
\* I/O error, the extraction terminates with that single error, no later
\* entry is unpacked, the directories still buffered never are, no ledger
\* is returned and the files already written remain; a failure of
\* canonicalize fails nothing.
C15_AbortWithThatError ==
    kind = "Tar" =>
        /\ TarAborted
        /\ (IterationOrUnpackFailed /\ result # NoResult) => result = wres

\* C15 amended: as stated, the result of the call being the error of the
\* worker unless the stream has failed: once the download error has been
\* read from the stream, that error is the result, whatever error the
\* worker meets afterwards.
C15_TarErrorAbort ==
    kind = "Tar" =>
        /\ TarAborted
        /\ (wres[1] = "Err" /\ result # NoResult) =>
              result = IF ErrorPulled THEN Err(DownloadError) ELSE wres

C15_Witness ==
    /\ kind = "Tar" /\ run = 1
    /\ ~canon
    /\ wres = Err("EIO") /\ result = wres
    /\ disk = {<<"a", "b.txt">>}
    /\ directories # <<>>
    /\ Len(unpackLog) = 2 /\ unpackLog[2].outcome = "failed"

(***************************************************************************)
(* Termination of a call through the bridge (checked under SpecCallFair)   *)
(***************************************************************************)
\* The producer waits in tx.send and the worker has returned an error.
ProducerReleasedByError == ppc = "send" /\ wres[1] = "Err"

\* C16: under fair scheduling every call returns a result and its worker
\* finishes, whatever the stream and the faults are, and a producer that
\* waits in tx.send when the worker returns an error is released, the call
\* returning the error of the worker.
C16_CallReturns ==
    /\ <>(result # NoResult)
    /\ <>(wpc = "done")
    /\ ProducerReleasedByError ~> (result = wres)

\* The producer was blocked on a full channel, nothing received yet, when
\* the worker failed; the call has returned the error of the worker.
C16_Witness ==
    /\ asyncSide
    /\ Len(PulledChunks) = cap + 1 /\ recvd = <<>>
    /\ wres[1] = "Err" /\ result = wres

\* The ordinary name components of a path.
NormalComponents(path) == SelectSeq(path, LAMBDA c : c \notin {CurDir, ParentDir, RootDir})

\* C17: the unreachable!() of the normalized_path loop is never executed:
\* every Regular entry whose unpack_in returned true has a path without a
\* ".." component, and the path recorded for it in the ledger is made of
\* the ordinary name components of its path, and of nothing else.
C17_UnreachableNeverRun ==
    kind = "Tar" =>
        /\ wres # Err("panic") /\ result # Err("panic")
        /\ \A p \in UnpackedPaths("Regular") :
              /\ ~has_parent_dir(p)
              /\ NormalComponents(p) \in ledger.files
        /\ \A l \in LedgersInSight : \A p \in l.files :
              /\ p # Unreachable
              /\ NormalComponents(p) = p
              /\ \E q \in UnpackedPaths("Regular") : p = NormalComponents(q)

C17_Witness ==
    /\ kind = "Tar" /\ run = 1 /\ result[1] = "Ok"
    /\ \E i \in 1..Len(unpackLog) :
          /\ unpackLog[i].entry.type = "Regular"
          /\ has_parent_dir(unpackLog[i].entry.path)
          /\ unpackLog[i].outcome = "skipped"
    /\ \E i \in 1..Len(unpackLog) :
          /\ unpackLog[i].entry.path = <<".", "c">>
          /\ unpackLog[i].outcome = "unpacked"
    /\ <<"c">> \in result[2].files

(***************************************************************************)
(* extensions against guess_pkg_format (checked under SpecGuess)           *)
(***************************************************************************)
\* The pkg_url is a non-empty dot-free stem followed by the extension e.
StemThen(e) == Len(url) >= 2 /\ url[1] # "" /\ url = <<url[1]>> \o e

\* C18: for every format f, every is_windows and every non-empty extension
\* e of extensions(f, is_windows), guess_pkg_format of a non-empty dot-free
\* stem followed by e is Some(f).
C18_ExtensionsGuessed ==
    Guessed =>
        \A f \in PkgFmt, is_windows \in BOOLEAN :
            \A k \in 1..Len(extensions(f, is_windows)) :
                LET e == extensions(f, is_windows)[k]
                IN  (e # <<>> /\ StemThen(e)) => guessed = Some(f)

(***************************************************************************)
(* The form of the ledger paths (checked under SpecTar)                    *)
(***************************************************************************)
\* C19: every path of a returned ledger, file or directory, is made of
\* ordinary name components only (no root, no "." and no ".."), so that the
\* directory entry `./a/` is recorded as `a`.
C19_LedgerPathsNormal ==
    (kind = "Tar" /\ result[1] = "Ok") =>
        \A p \in result[2].files \cup result[2].dirs :
            /\ p # Unreachable
            /\ NormalComponents(p) = p

(***************************************************************************)
(* Quiescence on return (checked under SpecBridge)                         *)
(***************************************************************************)
\* What a step leaves of the filesystem: the destination file, the
\* destination directory and what is under it, and the parent.
FilesystemUntouched == UNCHANGED <<fileData, disk, dirs, dstExists, parentExists>>

\* C20: once the call has returned its result (success, worker error or
\* stream error), no step writes to the filesystem any more.
C20_QuiescentOnReturn == [][result # NoResult => FilesystemUntouched]_vars

====
